---- MODULE Spec2Model ----
(***************************************************************************)
(* electron-builder-notarize-pkg: the afterAllArtifactBuild hook that      *)
(* signs (src/index.js) or only notarizes (src/unnamed/part_000) a macOS   *)
(* .pkg artifact, polls Apple's notarization service and staples the       *)
(* ticket.  The two source files are two variants of the same hook; the    *)
(* variable `variant` says which one runs.  Definitions that end in        *)
(* _index model src/index.js, definitions that end in _part000 model       *)
(* src/unnamed/part_000, and a definition without suffix models code that  *)
(* is textually the same in both files.                                    *)
(***************************************************************************)
EXTENDS Integers, Sequences, FiniteSets, TLC

(***************************************************************************)
(* Bounds of the model.                                                    *)
(***************************************************************************)
\* the largest number of status queries one run is followed through
MaxPolls == 3
\* the largest number of entries of parameters.artifactPaths
MaxArtifacts == 2

(***************************************************************************)
(* JavaScript values.  Each kind has its own field name, so that values of *)
(* different kinds are unequal records.                                    *)
(***************************************************************************)
Undefined == [t |-> "undefined"]
Null == [t |-> "null"]
NaN == [t |-> "NaN"]
Str(s) == [t |-> "string", s |-> s]
Num(n) == [t |-> "number", n |-> n]
DateOf(s) == [t |-> "Date", d |-> s]

\* ToBoolean, as used by `!x`, `x && y`, `x || y` and `x ? a : b`
Truthy(v) ==
  CASE v.t = "string" -> v.s # ""
    [] v.t = "number" -> v.n # 0
    [] v.t = "Date" -> TRUE
    [] v.t = "path" -> TRUE
    [] OTHER -> FALSE

\* x || y
Or(x, y) == IF Truthy(x) THEN x ELSE y

RECURSIVE Concat(_)
Concat(pieces) == IF pieces = <<>> THEN "" ELSE Head(pieces) \o Concat(Tail(pieces))

Digit == <<"0", "1", "2", "3", "4", "5", "6", "7", "8", "9">>

RECURSIVE NatToStr(_)
NatToStr(n) == IF n < 10 THEN Digit[n + 1] ELSE NatToStr(n \div 10) \o Digit[(n % 10) + 1]

\* the conversion a template literal `${v}` applies
ToStr(v) ==
  CASE v.t = "string" -> v.s
    [] v.t = "number" -> IF v.n < 0 THEN "-" \o NatToStr(0 - v.n) ELSE NatToStr(v.n)
    [] v.t = "undefined" -> "undefined"
    [] v.t = "null" -> "null"
    [] v.t = "NaN" -> "NaN"
    [] v.t = "path" -> v.dir \o "/" \o Concat(v.base)
    [] OTHER -> v.d

\* The characters of the strings the authority may put after `Status Code: `.
Chars(s) ==
  CASE s = "2" -> <<"2">>
    [] s = "0" -> <<"0">>
    [] s = "17" -> <<"1", "7">>
    [] s = "2x" -> <<"2", "x">>
    [] s = " 2" -> <<" ", "2">>
    [] s = "-1" -> <<"-", "1">>
    [] s = "n/a" -> <<"n", "/", "a">>
    [] OTHER -> <<>>

DigitValue(c) == CHOOSE d \in 0..9 : Digit[d + 1] = c
IsDigit(c) == \E d \in 0..9 : Digit[d + 1] = c

RECURSIVE SkipSpaces(_)
SkipSpaces(cs) == IF cs # <<>> /\ Head(cs) = " " THEN SkipSpaces(Tail(cs)) ELSE cs

RECURSIVE ReadDigits(_, _)
ReadDigits(cs, acc) ==
  IF cs # <<>> /\ IsDigit(Head(cs))
  THEN ReadDigits(Tail(cs), 10 * acc + DigitValue(Head(cs)))
  ELSE acc

\* Number.parseInt(s, 10): leading white space, an optional sign, the longest
\* run of digits; NaN when there is no digit.
parseInt(s) ==
  LET cs == SkipSpaces(Chars(s))
      neg == cs # <<>> /\ Head(cs) = "-"
      ds == IF cs # <<>> /\ Head(cs) \in {"-", "+"} THEN Tail(cs) ELSE cs
  IN IF ds = <<>> \/ ~IsDigit(Head(ds)) THEN NaN
     ELSE Num(IF neg THEN 0 - ReadDigits(ds, 0) ELSE ReadDigits(ds, 0))

(***************************************************************************)
(* File paths.  A path is a directory and a base name; the base name is a  *)
(* sequence of pieces in which "." stands for a dot.                       *)
(***************************************************************************)
Path(d, b) == [t |-> "path", dir |-> d, base |-> b]

\* index of the last dot of a base name, 0 when it has none
LastDot(b) ==
  LET dots == {i \in 1..Len(b) : b[i] = "."}
  IN IF dots = {} THEN 0 ELSE CHOOSE i \in dots : \A j \in dots : j <= i

\* path.extname: from the last dot of the base name to its end; empty when
\* there is no dot or the only dot is the first character
extname(p) ==
  LET i == LastDot(p.base)
  IN IF i <= 1 THEN <<>> ELSE SubSeq(p.base, i, Len(p.base))

\* path.basename
basename(p) == Concat(p.base)

\* path.dirname
dirname(p) == p.dir

\* path.parse(p).name: the base name without its extension
ParsedName(p) == SubSeq(p.base, 1, Len(p.base) - Len(extname(p)))

\* path.resolve(dir, `${name}${suffix}.pkg`)
Sibling(p, suffix) == Path(p.dir, ParsedName(p) \o <<suffix, ".", "pkg">>)

(***************************************************************************)
(* Tool output.  The text a tool writes is a sequence of lines joined by   *)
(* newlines; execa strips one final newline, so a text that still ends in  *)
(* a newline has an empty last line.  A line is its leading spaces, its    *)
(* label (empty for free text) and the rest of the line.                   *)
(***************************************************************************)
Line(lead, label, val) == [lead |-> lead, label |-> label, val |-> val]
Free(val) == Line(0, "", val)
Blank == Line(0, "", "")

\* The lines a pattern /\n<spaces><label>(.+?)\n/ matches: a newline before
\* the line (it is not the first), a newline after it (it is not the last),
\* at least one character after the label, and leading spaces only when the
\* pattern allows them (` *`).
MatchingLines(text, label, spacesAllowed) ==
  {i \in 1..Len(text) :
     /\ i > 1
     /\ i < Len(text)
     /\ text[i].label = label
     /\ text[i].val # ""
     /\ (spacesAllowed \/ text[i].lead = 0)}

\* r.exec(text): the capture group of the leftmost match, or null
exec(text, label, spacesAllowed) ==
  LET m == MatchingLines(text, label, spacesAllowed)
  IN IF m = {} THEN Null
     ELSE Str(text[CHOOSE i \in m : \A j \in m : i <= j].val)

\* the closure matchToProperty of parseNotarizationInfo; modifier is "none",
\* "date" (d => new Date(d)) or "int" (n => Number.parseInt(n, 10))
matchToProperty(text, label, modifier) ==
  LET e == exec(text, label, TRUE)
  IN IF e = Null THEN Undefined
     ELSE CASE modifier = "date" -> DateOf(e.s)
            [] modifier = "int" -> parseInt(e.s)
            [] OTHER -> e

parseNotarizationInfo(text) ==
  LET url == matchToProperty(text, "LogFileURL: ", "none")
  IN [uuid |-> matchToProperty(text, "RequestUUID: ", "none"),
      date |-> matchToProperty(text, "Date: ", "date"),
      status |-> matchToProperty(text, "Status: ", "none"),
      logFileUrl |-> IF url = Str("(null)") THEN Null ELSE url,
      statusCode |-> matchToProperty(text, "Status Code: ", "int"),
      statusMessage |-> matchToProperty(text, "Status Message: ", "none")]

(***************************************************************************)
(* Errors.  An error is its message, a sequence of the pieces the template *)
(* literal puts together; the first piece tells the errors apart.          *)
(***************************************************************************)
MsgSignFailed == "Failed to sign "
MsgUploadFailed == "Failed to upload app to Apple's notarization servers\n\n"
MsgNoUuid == "Failed to find request UUID in output:\n\n"
MsgRejected == "Apple failed to notarize your application, check the logs for more info\n\nStatus Code: "
MsgUnrecognized == "Unrecognized notarization status: \""
MsgStapleFailed == "Failed to staple your application with code: "
MsgCommandFailed == "Command failed: "
MsgRenameFailed == "ENOENT: no such file or directory, rename "

\* the error execa rejects with when the tool cannot be run or exits non-zero
ExecaError(tool) == [message |-> <<MsgCommandFailed, tool>>, code |-> Num(1)]

Returned == [t |-> "return"]
Thrown(message) == [t |-> "throw", message |-> message]

\* the text of an output, for `${stdout}`
RECURSIVE TextStr(_)
TextStr(text) ==
  IF text = <<>> THEN ""
  ELSE Concat(<<IF text[1].lead > 0 THEN " " ELSE "", text[1].label, text[1].val>>)
       \o (IF Len(text) > 1 THEN "\n" ELSE "") \o TextStr(Tail(text))

(***************************************************************************)
(* Reading the configuration from the process environment.                 *)
(***************************************************************************)
MsgPscMissing == "PSC_NAME is required for product signing."
MsgAuthMissing == "Authentication environment variables for notarization are missing. Either APPLE_ID and APPLE_ID_PASSWORD, or API_KEY_ID and API_KEY_ISSUER_ID must be defined."
MsgAuthBoth == "Should only provide either Apple ID or API key environment variables."
MsgAppleIdPart == "One of APPLE_ID and APPLE_ID_PASSWORD environment variables is missing for notarization."
MsgAppleIdTeamPart == "One of APPLE_ID, APPLE_ID_PASSWORD, and APPLE_TEAM_ID environment variables is missing for notarization."
MsgApiKeyPart == "One of API_KEY_ID and API_KEY_ISSUER_ID environment variables is missing for notarization."

ReturnedValue(v) == [t |-> "return", value |-> v]

\* getAuthInfo of src/index.js
getAuthInfo_index(e) ==
  LET appleId == e.APPLE_ID
      appleIdPassword == e.APPLE_ID_PASSWORD
      appleApiKey == e.API_KEY_ID
      appleApiIssuer == e.API_KEY_ISSUER_ID
      teamShortName == e.TEAM_SHORT_NAME
      productSignCertificateName == e.PSC_NAME
  IN IF ~Truthy(productSignCertificateName) THEN Thrown(<<MsgPscMissing>>)
     ELSE IF ~Truthy(appleId) /\ ~Truthy(appleIdPassword)
             /\ ~Truthy(appleApiKey) /\ ~Truthy(appleApiIssuer)
     THEN Thrown(<<MsgAuthMissing>>)
     ELSE IF (Truthy(appleId) \/ Truthy(appleIdPassword))
             /\ (Truthy(appleApiKey) \/ Truthy(appleApiIssuer))
     THEN Thrown(<<MsgAuthBoth>>)
     ELSE IF (Truthy(appleId) /\ ~Truthy(appleIdPassword))
             \/ (~Truthy(appleId) /\ Truthy(appleIdPassword))
     THEN Thrown(<<MsgAppleIdPart>>)
     ELSE IF (Truthy(appleApiKey) /\ ~Truthy(appleApiIssuer))
             \/ (~Truthy(appleApiKey) /\ Truthy(appleApiIssuer))
     THEN Thrown(<<MsgApiKeyPart>>)
     ELSE ReturnedValue([appleId |-> appleId,
                         appleIdPassword |-> appleIdPassword,
                         appleApiKey |-> appleApiKey,
                         appleApiIssuer |-> appleApiIssuer,
                         teamShortName |-> teamShortName,
                         productSignCertificateName |-> productSignCertificateName])

\* getAuthInfo of src/unnamed/part_000
getAuthInfo_part000(e) ==
  LET appleId == e.APPLE_ID
      appleIdPassword == e.APPLE_ID_PASSWORD
      appleTeamId == e.APPLE_TEAM_ID
      appleApiKey == e.API_KEY_ID
      appleApiIssuer == e.API_KEY_ISSUER_ID
      teamShortName == e.TEAM_SHORT_NAME
  IN IF ~Truthy(appleId) /\ ~Truthy(appleIdPassword)
        /\ ~Truthy(appleApiKey) /\ ~Truthy(appleApiIssuer)
     THEN Thrown(<<MsgAuthMissing>>)
     ELSE IF (Truthy(appleId) \/ Truthy(appleIdPassword) \/ Truthy(appleTeamId))
             /\ (Truthy(appleApiKey) \/ Truthy(appleApiIssuer))
     THEN Thrown(<<MsgAuthBoth>>)
     ELSE IF ~Truthy(appleId) \/ ~Truthy(appleIdPassword) \/ ~Truthy(appleTeamId)
     THEN Thrown(<<MsgAppleIdTeamPart>>)
     ELSE IF (Truthy(appleApiKey) /\ ~Truthy(appleApiIssuer))
             \/ (~Truthy(appleApiKey) /\ Truthy(appleApiIssuer))
     THEN Thrown(<<MsgApiKeyPart>>)
     ELSE ReturnedValue([appleId |-> appleId,
                         appleIdPassword |-> appleIdPassword,
                         appleTeamId |-> appleTeamId,
                         appleApiKey |-> appleApiKey,
                         appleApiIssuer |-> appleApiIssuer,
                         teamShortName |-> teamShortName])

\* isEnvTrue comparing the value as it is, without value.trim()
isEnvTrue_NoTrim(value) ==
  value = Str("true") \/ value = Str("") \/ value = Str("1")

\* String.prototype.trim on the flag values of the model
trim(s) ==
  CASE s = " true " -> "true"
    [] s = " 1" -> "1"
    [] s = " " -> ""
    [] OTHER -> s

isEnvTrue(value) ==
  LET v == IF value # Undefined /\ value # Null THEN Str(trim(value.s)) ELSE value
  IN v = Str("true") \/ v = Str("") \/ v = Str("1")

\* The guards of module.exports on the build context: the pull-request guard
\* and the branch guard.  TRUE when the run goes on.
BuildContextAllows(isPullRequest, e) ==
  /\ ~(isPullRequest /\ ~isEnvTrue(e.CSC_FOR_PULL_REQUEST))
  /\ ~(/\ ~isEnvTrue(e.CSC_FOR_PULL_REQUEST)
       /\ \/ Truthy(e.CIRCLE_BRANCH) /\ e.CIRCLE_BRANCH # Str("master")
          \/ Truthy(e.TRAVIS_BRANCH) /\ e.TRAVIS_BRANCH # Str("master"))

\* property access on a value: a property of an object, undefined on a
\* string (the names used here are not properties of String.prototype)
Prop(v, name) ==
  IF v.t = "object" /\ name \in DOMAIN v.props THEN v.props[name] ELSE Undefined

Object(props) == [t |-> "object", props |-> props]

\* getAuthorizingArgs of src/index.js with the second pair taken from the
\* other credential set
getAuthorizingArgs_index_Mixed(notarizeOptions) ==
  LET appleId == notarizeOptions.appleId
      appleIdPassword == notarizeOptions.appleIdPassword
      appleApiKey == notarizeOptions.appleApiKey
      appleApiIssuer == notarizeOptions.appleApiIssuer
  IN IF Truthy(appleId)
     THEN <<Str("--username"), appleId, Str("--apiIssuer"), appleApiIssuer>>
     ELSE <<Str("--apiKey"), appleApiKey, Str("--password"), appleIdPassword>>

\* getAuthorizingArgs of src/index.js
getAuthorizingArgs_index(notarizeOptions) ==
  LET appleId == notarizeOptions.appleId
      appleIdPassword == notarizeOptions.appleIdPassword
      appleApiKey == notarizeOptions.appleApiKey
      appleApiIssuer == notarizeOptions.appleApiIssuer
  IN IF Truthy(appleId)
     THEN <<Str("--username"), appleId, Str("--password"), appleIdPassword>>
     ELSE <<Str("--apiKey"), appleApiKey, Str("--apiIssuer"), appleApiIssuer>>

\* getAuthorizingArgs of src/unnamed/part_000
getAuthorizingArgs_part000(notarizeOptions) ==
  LET appleId == notarizeOptions.appleId
      appleIdPassword == notarizeOptions.appleIdPassword
      appleTeamId == notarizeOptions.appleTeamId
      appleApiKey == notarizeOptions.appleApiKey
      appleApiIssuer == notarizeOptions.appleApiIssuer
  IN IF Truthy(appleId)
     THEN <<Str("--username"), appleId, Str("--password"), appleIdPassword,
            Str("--asc-provider"), appleTeamId>>
     ELSE <<Str("--apiKey"), appleApiKey, Str("--apiIssuer"), appleApiIssuer>>

getAuthorizingArgs(v, notarizeOptions) ==
  IF v = "index" THEN getAuthorizingArgs_index(notarizeOptions)
  ELSE getAuthorizingArgs_part000(notarizeOptions)

\* the provider pair startNotarizingPackage appends to the upload arguments
ProviderArgs(notarizeOpts) ==
  IF Truthy(notarizeOpts.teamShortName)
  THEN <<Str("-itc_provider"), notarizeOpts.teamShortName>>
  ELSE <<>>

\* the argument list startNotarizingPackage passes to xcrun
NotarizeAppArgs(v, pkgPath, appId, notarizeOpts) ==
  <<Str("altool"), Str("--notarize-app"), Str("--primary-bundle-id"), appId,
    Str("--file"), pkgPath>>
  \o getAuthorizingArgs(v, notarizeOpts)
  \o ProviderArgs(notarizeOpts)

\* What startNotarizingPackage completes with once xcrun has finished:
\* `failed` says that execa rejected, stdout is the captured output.  The
\* throw of the missing identifier is inside the try block, so the catch
\* clause wraps it like a failure of the tool.
startNotarizingPackage(failed, stdout) ==
  LET uuidMatch == exec(stdout, "RequestUUID = ", FALSE)
      inner == IF failed THEN Thrown(ExecaError("xcrun").message)
               ELSE IF uuidMatch = Null THEN Thrown(<<MsgNoUuid, TextStr(stdout)>>)
               ELSE ReturnedValue(uuidMatch)
  IN IF inner.t = "throw" THEN Thrown(<<MsgUploadFailed>> \o inner.message)
     ELSE inner

\* the argument list with the identifier read from notarizeOpts, which has
\* no such property
NotarizationInfoArgs_FromOptions(v, uuid, notarizeOpts) ==
  <<Str("altool"), Str("--notarization-info"),
    IF "uuid" \in DOMAIN notarizeOpts THEN notarizeOpts.uuid ELSE Undefined>>
  \o getAuthorizingArgs(v, notarizeOpts)

\* the argument list waitForNotarize passes to xcrun
NotarizationInfoArgs(v, uuid, notarizeOpts) ==
  <<Str("altool"), Str("--notarization-info"), uuid>>
  \o getAuthorizingArgs(v, notarizeOpts)

\* the test of the 'in progress' branch taken as `status !== 'success'`
IsInProgress_NotSuccess(notarizationInfo) == notarizationInfo.status # Str("success")

\* the test of the 'in progress' branch of waitForNotarize
IsInProgress(notarizationInfo) == notarizationInfo.status = Str("in progress")

\* the end of waitForNotarize without its last check: every status but
\* 'invalid' completes normally
CheckStatus_OnlyInvalid(notarizationInfo) ==
  IF notarizationInfo.status = Str("invalid")
  THEN Thrown(<<MsgRejected,
                ToStr(Or(notarizationInfo.statusCode, Str("No Code"))),
                "\nMessage: ",
                ToStr(Or(notarizationInfo.statusMessage, Str("No Message"))),
                "\nLogs: ",
                ToStr(notarizationInfo.logFileUrl)>>)
  ELSE Returned

\* The end of waitForNotarize, after the 'in progress' branch: what the call
\* completes with for the parsed record.
CheckStatus(notarizationInfo) ==
  IF notarizationInfo.status = Str("invalid")
  THEN Thrown(<<MsgRejected,
                ToStr(Or(notarizationInfo.statusCode, Str("No Code"))),
                "\nMessage: ",
                ToStr(Or(notarizationInfo.statusMessage, Str("No Message"))),
                "\nLogs: ",
                ToStr(notarizationInfo.logFileUrl)>>)
  ELSE IF notarizationInfo.status # Str("success")
  THEN Thrown(<<MsgUnrecognized, ToStr(notarizationInfo.status), "\"">>)
  ELSE Returned

\* the 'in progress' branch returning the inner call in both files
InProgressCall_Return(v) == "return"

\* How the 'in progress' branch calls waitForNotarize again: src/index.js
\* awaits the inner call and goes on with its own record, part_000 returns
\* the inner call.  The catch branch returns the inner call in both files.
InProgressCall(v) == IF v = "index" THEN "await" ELSE "return"

\* a suspended call that awaits the inner call in its catch clause and then
\* returns, whatever the inner call completed with
Resume_Swallow(frame, inner) ==
  IF frame.how = "return" THEN Returned
  ELSE IF inner.t = "throw" THEN inner
  ELSE CheckStatus(frame.notarizationInfo)

\* What a suspended waitForNotarize call completes with when the inner call
\* it waits for has completed with `inner`.
Resume(frame, inner) ==
  IF frame.how = "return" THEN inner
  ELSE IF inner.t = "throw" THEN inner
  ELSE CheckStatus(frame.notarizationInfo)

\* signPackage of src/index.js, up to the call of the tool: the argument
\* list passed to productsign.  The function destructures its first
\* positional argument.
signPackage(options) ==
  <<Str("--sign"),
    Prop(options, "productSignCertificateName"),
    Prop(options, "pkgPath"),
    Prop(options, "signedPath")>>

\* the error signPackage throws when productsign fails
SignError(options) ==
  Thrown(<<MsgSignFailed, ToStr(Prop(options, "pkgPath")), "\n\n">>
         \o ExecaError("productsign").message)

\* stapleApp: the arguments and the working directory passed to xcrun
stapleApp(pkgPath) ==
  [args |-> <<Str("stapler"), Str("staple"), Str("-v"), Str(basename(pkgPath))>>,
   cwd |-> dirname(pkgPath)]

\* the error stapleApp throws when stapler fails
StapleError ==
  Thrown(<<MsgStapleFailed, ToStr(ExecaError("xcrun").code), "\n\n">>
         \o ExecaError("xcrun").message)

\* the search with filePath.endsWith('.pkg') in the place of path.extname
FindPkg_EndsWith(artifactPaths) ==
  LET hits == {i \in 1..Len(artifactPaths) :
                 LET b == artifactPaths[i].base
                 IN Len(b) >= 2 /\ SubSeq(b, Len(b) - 1, Len(b)) = <<".", "pkg">>}
  IN IF hits = {} THEN Undefined
     ELSE artifactPaths[CHOOSE i \in hits : \A j \in hits : i <= j]

\* artifactPaths.find(filePath => path.extname(filePath) === '.pkg')
FindPkg(artifactPaths) ==
  LET hits == {i \in 1..Len(artifactPaths) : extname(artifactPaths[i]) = <<".", "pkg">>}
  IN IF hits = {} THEN Undefined
     ELSE artifactPaths[CHOOSE i \in hits : \A j \in hits : i <= j]

(***************************************************************************)
(* The world around the hook: the artifacts of the build, the files on     *)
(* disk, the process environment and the answers of the tools.             *)
(***************************************************************************)
AppPkg == Path("dist", <<"app", ".", "pkg">>)
AppDmg == Path("dist", <<"app", ".", "dmg">>)
DotPkg == Path("dist", <<".", "pkg">>)
OtherPkg == Path("out", <<"b", ".", "pkg">>)
ArtifactChoices == {AppPkg, AppDmg, DotPkg, OtherPkg}

RECURSIVE SeqsUpTo(_, _)
SeqsUpTo(S, n) ==
  IF n = 0 THEN {<<>>}
  ELSE LET shorter == SeqsUpTo(S, n - 1)
       IN shorter \cup {Append(q, x) : q \in shorter, x \in S}

ArtifactLists == SeqsUpTo(ArtifactChoices, MaxArtifacts)

\* every file name the model follows; Undefined is the name a tool sees when
\* it is handed `undefined` as a path
Files ==
  ArtifactChoices
  \cup {Sibling(p, "-signed") : p \in ArtifactChoices}
  \cup {Sibling(p, "-unsigned") : p \in ArtifactChoices}
  \cup {Undefined}

Absent == [kind |-> "absent"]
Built(p) == [kind |-> "built", of |-> p]
Stale == [kind |-> "stale"]
SignedBy(identity, content) == [kind |-> "signed", identity |-> identity, from |-> content]

\* the disk when the hook starts: every artifact of the build is there; a
\* '-signed.pkg' file of an earlier build and a file named 'undefined' may
\* be there or not
InitialFiles(staleSigned, undefinedFile) ==
  [f \in Files |->
     IF f \in ArtifactChoices THEN Built(f)
     ELSE IF f = Undefined THEN (IF undefinedFile THEN Built(f) ELSE Absent)
     ELSE IF f \in {Sibling(p, "-signed") : p \in ArtifactChoices}
     THEN (IF staleSigned THEN Stale ELSE Absent)
     ELSE Absent]

Maybe(name) == {Undefined, Str(name)}

\* the variables getAuthInfo reads
CredentialEnvs ==
  [APPLE_ID : Maybe("id@example.com"),
   APPLE_ID_PASSWORD : Maybe("secret"),
   APPLE_TEAM_ID : Maybe("TEAM123"),
   API_KEY_ID : Maybe("KEY1"),
   API_KEY_ISSUER_ID : Maybe("ISSUER1"),
   TEAM_SHORT_NAME : Maybe("ShortName"),
   PSC_NAME : Maybe("Developer ID Installer: NAME")]

\* the variables the build-context guards read
ContextEnvs ==
  [CSC_FOR_PULL_REQUEST : {Undefined, Str("true"), Str(" true "), Str("1"), Str(" 1"),
                           Str(""), Str(" "), Str("TRUE"), Str("false")},
   CIRCLE_BRANCH : {Undefined, Str(""), Str("master"), Str("dev")},
   TRAVIS_BRANCH : {Undefined, Str("master"), Str("dev")}]

NothingRead == [x \in {} |-> Undefined]

UuidLine(id) == Line(0, "RequestUUID = ", id)

\* what the upload tool may print
UploadOutputs ==
  {<<Free("No errors uploading 'app.pkg'."), UuidLine("ABC-123"), Blank>>,
   <<Free("No errors uploading 'app.pkg'."), UuidLine("ABC-123")>>,
   <<UuidLine("ABC-123"), Free("No errors uploading 'app.pkg'.")>>,
   <<Free("No errors uploading 'app.pkg'."), UuidLine("ABC-123"), UuidLine("DEF-456"), Blank>>,
   <<Free("No errors uploading 'app.pkg'."), Blank>>}

Header == Free("No errors getting notarization info.")

\* a status answer: the fields in the order altool prints them, an empty
\* string for a field it leaves out; newlineAtEnd says whether the text
\* still ends in a newline after execa stripped one
StatusText(status, code, message, url, newlineAtEnd) ==
  <<Header, Blank, Line(1, "RequestUUID: ", "OTHER-9"),
    Line(1, "Date: ", "2020-01-01 10:00:00 +0000"), Line(1, "Status: ", status)>>
  \o (IF url = "" THEN <<>> ELSE <<Line(1, "LogFileURL: ", url)>>)
  \o (IF code = "" THEN <<>> ELSE <<Line(1, "Status Code: ", code)>>)
  \o (IF message = "" THEN <<>> ELSE <<Line(0, "Status Message: ", message)>>)
  \o (IF newlineAtEnd THEN <<Blank>> ELSE <<>>)

InProgressText == StatusText("in progress", "", "", "(null)", TRUE)
SuccessText == StatusText("success", "0", "Package Approved", "https://log", TRUE)

\* what the status tool may print
StatusOutputs ==
  {InProgressText,
   SuccessText,
   StatusText("invalid", "2", "Package Invalid", "https://log", TRUE),
   StatusText("invalid", "2", "Package Invalid", "https://log", FALSE),
   StatusText("invalid", "0", "Package Invalid", "(null)", TRUE),
   StatusText("invalid", "n/a", "", "", TRUE),
   StatusText("revoked", "", "", "(null)", TRUE),
   StatusText("success", "", "", "", FALSE)}

\* a failed query, as an element of the record of answers
QueryFailed == <<>>

QueryOutcomes == StatusOutputs \cup {QueryFailed}

(***************************************************************************)
(* The state of one run of the hook.                                       *)
(***************************************************************************)
VARIABLES
  variant,     \* "index" (sign and notarize) or "part000" (notarize only)
  parameters,  \* the argument of module.exports
  fs,          \* the content of every file
  env,         \* the environment values the latest step read
  pc,          \* where module.exports stands
  authInfo,    \* the local authInfo of module.exports
  pkgPath,     \* the local pkgPath of module.exports
  uuid,        \* the local uuid of module.exports
  stack,       \* the suspended waitForNotarize calls, outermost first
  completion,  \* what the innermost finished waitForNotarize call completed with
  outcome,     \* what module.exports completed with
  calls,       \* the tools invoked so far, with their arguments
  answers,     \* the outcomes of the status queries so far
  waits,       \* the number of 30-second delays so far
  renames      \* the renames done so far

vars == <<variant, parameters, fs, env, pc, authInfo, pkgPath, uuid, stack,
          completion, outcome, calls, answers, waits, renames>>

Running == [t |-> "running"]
None == [t |-> "none"]

\* one invocation of a tool through execa: the tool, its arguments, the
\* working directory, whether execa rejected, and the captured output
Call(tool, args, cwd, failed, stdout) ==
  [tool |-> tool, args |-> args, cwd |-> cwd, failed |-> failed, stdout |-> stdout]

Init ==
  /\ variant \in {"index", "part000"}
  /\ \E platform \in (IF variant = "index" THEN {Str("darwin"), Str("win32")} ELSE {Undefined}),
        artifactPaths \in ArtifactLists :
       parameters = [electronPlatformName |-> platform,
                     artifactPaths |-> artifactPaths,
                     configuration |-> [appId |-> Str("com.example.app")]]
  /\ \E staleSigned \in (IF variant = "index" THEN BOOLEAN ELSE {FALSE}),
        undefinedFile \in (IF variant = "index" THEN BOOLEAN ELSE {FALSE}) :
       fs = InitialFiles(staleSigned, undefinedFile)
  /\ env = NothingRead
  /\ pc = "start"
  /\ authInfo = Undefined
  /\ pkgPath = Undefined
  /\ uuid = Undefined
  /\ stack = <<>>
  /\ completion = None
  /\ outcome = Running
  /\ calls = <<>>
  /\ answers = <<>>
  /\ waits = 0
  /\ renames = <<>>

\* module.exports completes with r
Finish(r) ==
  /\ pc' = "done"
  /\ outcome' = r

getAuthInfo(v, e) == IF v = "index" THEN getAuthInfo_index(e) ELSE getAuthInfo_part000(e)

\* the catch clause throwing the error on
OnAuthError_Rethrow(error) == error

\* the catch clause around getAuthInfo(): log and return
OnAuthError(error) == Returned

\* The start of module.exports: the platform guard (src/index.js only) and
\* the validation of the credentials.
ReadAuthInfo ==
  /\ pc = "start"
  /\ IF variant = "index" /\ parameters.electronPlatformName # Str("darwin")
     THEN /\ Finish(Returned)
          /\ UNCHANGED <<env, authInfo>>
     ELSE \E e \in CredentialEnvs :
            LET r == getAuthInfo(variant, e)
            IN /\ env' = e
               /\ IF r.t = "throw"
                  THEN Finish(OnAuthError(r)) /\ UNCHANGED authInfo
                  ELSE /\ authInfo' = r.value
                       /\ pc' = "context"
                       /\ UNCHANGED outcome
  /\ UNCHANGED <<variant, parameters, fs, pkgPath, uuid, stack, completion,
                 calls, answers, waits, renames>>

\* The pull-request guard and the branch guard.
CheckBuildContext ==
  /\ pc = "context"
  /\ \E isPullRequest \in BOOLEAN, e \in ContextEnvs :
       /\ env' = [isPullRequest |-> isPullRequest,
                  CSC_FOR_PULL_REQUEST |-> e.CSC_FOR_PULL_REQUEST,
                  CIRCLE_BRANCH |-> e.CIRCLE_BRANCH,
                  TRAVIS_BRANCH |-> e.TRAVIS_BRANCH]
       /\ IF BuildContextAllows(isPullRequest, e)
          THEN pc' = "find" /\ UNCHANGED outcome
          ELSE Finish(Returned)
  /\ UNCHANGED <<variant, parameters, fs, authInfo, pkgPath, uuid, stack,
                 completion, calls, answers, waits, renames>>

\* where module.exports goes once it has a pkgPath
AfterFind(v) == IF v = "index" THEN "sign" ELSE "upload"

\* The search of the .pkg artifact.
LocatePkg ==
  /\ pc = "find"
  /\ LET found == FindPkg(parameters.artifactPaths)
     IN /\ pkgPath' = found
        /\ IF ~Truthy(found)
           THEN Finish(Returned)
           ELSE pc' = AfterFind(variant) /\ UNCHANGED outcome
  /\ env' = NothingRead
  /\ UNCHANGED <<variant, parameters, fs, authInfo, uuid, stack, completion,
                 calls, answers, waits, renames>>

\* the first positional argument of the call of signPackage in
\* module.exports: signPackage(productSignCertificateName, pkgPath, signedPath)
SignPackageArgument(productSignCertificateName, pkg, signedPath) ==
  productSignCertificateName

\* productsign: it can succeed only when its source file exists, and then
\* writes the signed copy to its destination
ProductSignCanSucceed(files, args) == files[args[3]] # Absent
ProductSign(files, args) ==
  [files EXCEPT ![args[4]] = SignedBy(args[2], files[args[3]])]

\* await signPackage(...) (src/index.js)
SignPackage ==
  /\ pc = "sign"
  /\ LET signedPath == Sibling(pkgPath, "-signed")
         options == SignPackageArgument(authInfo.productSignCertificateName,
                                        pkgPath, signedPath)
         args == signPackage(options)
     IN \E ok \in {b \in BOOLEAN : b => ProductSignCanSucceed(fs, args)} :
          /\ calls' = Append(calls, Call("productsign", args, Undefined, ~ok, <<>>))
          /\ IF ok
             THEN /\ fs' = ProductSign(fs, args)
                  /\ pc' = "rename1"
                  /\ UNCHANGED outcome
             ELSE /\ Finish(SignError(options))
                  /\ UNCHANGED fs
  /\ env' = NothingRead
  /\ UNCHANGED <<variant, parameters, authInfo, pkgPath, uuid, stack,
                 completion, answers, waits, renames>>

\* fs.renameSync(from, to): fails when `from` does not exist (and may fail
\* for a reason of the disk), else moves the content
RenameCanSucceed(files, from) == files[from] # Absent
Rename(files, from, to) == [files EXCEPT ![to] = files[from], ![from] = Absent]
RenameError(from) == Thrown(<<MsgRenameFailed, ToStr(from)>>)

\* fs.renameSync in a try block whose catch clause ignores the error
RenameSync_Swallow(from, to, next) ==
  \E ok \in {b \in BOOLEAN : b => RenameCanSucceed(fs, from)} :
    IF ok
    THEN /\ fs' = Rename(fs, from, to)
         /\ renames' = Append(renames, <<from, to>>)
         /\ pc' = next
         /\ UNCHANGED outcome
    ELSE /\ pc' = next
         /\ UNCHANGED <<fs, renames, outcome>>

RenameSync(from, to, next) ==
  \E ok \in {b \in BOOLEAN : b => RenameCanSucceed(fs, from)} :
    IF ok
    THEN /\ fs' = Rename(fs, from, to)
         /\ renames' = Append(renames, <<from, to>>)
         /\ pc' = next
         /\ UNCHANGED outcome
    ELSE /\ Finish(RenameError(from))
         /\ UNCHANGED <<fs, renames>>

\* fs.renameSync(pkgPath, path.resolve(dir, `${name}-unsigned.pkg`))
RenameOriginal ==
  /\ pc = "rename1"
  /\ RenameSync(pkgPath, Sibling(pkgPath, "-unsigned"), "rename2")
  /\ UNCHANGED <<variant, parameters, env, authInfo, pkgPath, uuid, stack,
                 completion, calls, answers, waits>>

\* fs.renameSync(signedPath, pkgPath)
RenameSigned ==
  /\ pc = "rename2"
  /\ RenameSync(Sibling(pkgPath, "-signed"), pkgPath, "upload")
  /\ UNCHANGED <<variant, parameters, env, authInfo, pkgPath, uuid, stack,
                 completion, calls, answers, waits>>

\* the notarizeOpts module.exports passes on: src/index.js strips the
\* certificate name, part_000 passes authInfo itself
NotarizeOptions(v, info) ==
  IF v = "index"
  THEN [k \in DOMAIN info \ {"productSignCertificateName"} |-> info[k]]
  ELSE info

\* const uuid = await startNotarizingPackage(...)
Upload ==
  /\ pc = "upload"
  /\ \E failed \in BOOLEAN, stdout \in UploadOutputs :
       LET r == startNotarizingPackage(failed, stdout)
       IN /\ calls' = Append(calls,
                             Call("xcrun",
                                  NotarizeAppArgs(variant, pkgPath,
                                                  parameters.configuration.appId,
                                                  NotarizeOptions(variant, authInfo)),
                                  Undefined, failed, IF failed THEN <<>> ELSE stdout))
          /\ IF r.t = "throw"
             THEN Finish(r) /\ UNCHANGED uuid
             ELSE /\ uuid' = r.value
                  /\ pc' = "settle"
                  /\ UNCHANGED outcome
  /\ env' = NothingRead
  /\ UNCHANGED <<variant, parameters, fs, authInfo, pkgPath, stack, completion,
                 answers, waits, renames>>

\* await delay(10000)
Settle ==
  /\ pc = "settle"
  /\ pc' = "query"
  /\ UNCHANGED <<variant, parameters, fs, env, authInfo, pkgPath, uuid, stack,
                 completion, outcome, calls, answers, waits, renames>>

Frame(how, notarizationInfo) == [how |-> how, notarizationInfo |-> notarizationInfo]

\* waitForNotarize as a function of the script of query outcomes it meets:
\* the number of queries it issues and what its outermost call completes
\* with (Running when the script ends before a call has completed).
RECURSIVE waitForNotarize(_, _)
waitForNotarize(v, script) ==
  IF script = <<>> THEN [queries |-> 0, result |-> Running]
  ELSE LET output == Head(script)
           inner == waitForNotarize(v, Tail(script))
           notarizationInfo == parseNotarizationInfo(output)
       IN IF output = QueryFailed
          THEN [queries |-> inner.queries + 1, result |-> inner.result]
          ELSE IF IsInProgress(notarizationInfo)
          THEN [queries |-> inner.queries + 1,
                result |-> IF inner.result = Running THEN Running
                           ELSE IF InProgressCall(v) = "return" THEN inner.result
                           ELSE IF inner.result.t = "throw" THEN inner.result
                           ELSE CheckStatus(notarizationInfo)]
          ELSE [queries |-> 1, result |-> CheckStatus(notarizationInfo)]

\* One call of waitForNotarize, from its start to its next await or its
\* end: the status query, and what the call does with the answer.
Query ==
  /\ pc = "query"
  /\ Len(answers) < MaxPolls
  /\ \E answer \in QueryOutcomes :
       /\ calls' = Append(calls,
                          Call("xcrun",
                               NotarizationInfoArgs(variant, uuid,
                                                    NotarizeOptions(variant, authInfo)),
                               Undefined, answer = QueryFailed, answer))
       /\ answers' = Append(answers, answer)
       /\ IF answer = QueryFailed
          THEN /\ stack' = Append(stack, Frame("return", Undefined))
               /\ pc' = "delay30"
               /\ UNCHANGED completion
          ELSE LET notarizationInfo == parseNotarizationInfo(answer)
               IN IF IsInProgress(notarizationInfo)
                  THEN /\ stack' = Append(stack, Frame(InProgressCall(variant), notarizationInfo))
                       /\ pc' = "delay30"
                       /\ UNCHANGED completion
                  ELSE /\ completion' = CheckStatus(notarizationInfo)
                       /\ pc' = "unwind"
                       /\ UNCHANGED stack
  /\ UNCHANGED <<variant, parameters, fs, env, authInfo, pkgPath, uuid, outcome,
                 waits, renames>>

\* await delay(30000), then the inner call of waitForNotarize starts
Delay30 ==
  /\ pc = "delay30"
  /\ waits' = waits + 1
  /\ pc' = "query"
  /\ UNCHANGED <<variant, parameters, fs, env, authInfo, pkgPath, uuid, stack,
                 completion, outcome, calls, answers, renames>>

\* The innermost suspended call of waitForNotarize goes on after the call
\* it waits for has completed.
ResumeCaller ==
  /\ pc = "unwind"
  /\ stack # <<>>
  /\ completion' = Resume(stack[Len(stack)], completion)
  /\ stack' = SubSeq(stack, 1, Len(stack) - 1)
  /\ UNCHANGED <<variant, parameters, fs, env, authInfo, pkgPath, uuid, pc,
                 outcome, calls, answers, waits, renames>>

\* module.exports going on to stapleApp whatever waitForNotarize completed with
AfterPoll_Always(r) == "staple"

\* where module.exports goes when waitForNotarize has returned
AfterPoll(r) == IF r.t = "throw" THEN "done" ELSE "staple"

\* The outermost call of waitForNotarize has completed.
PollerCompleted ==
  /\ pc = "unwind"
  /\ stack = <<>>
  /\ pc' = AfterPoll(completion)
  /\ outcome' = IF AfterPoll(completion) = "done" THEN completion ELSE outcome
  /\ UNCHANGED <<variant, parameters, fs, env, authInfo, pkgPath, uuid, stack,
                 completion, calls, answers, waits, renames>>

\* await stapleApp({pkgPath}), and the end of module.exports
Staple ==
  /\ pc = "staple"
  /\ \E ok \in BOOLEAN :
       /\ calls' = Append(calls, Call("xcrun", stapleApp(pkgPath).args,
                                      Str(stapleApp(pkgPath).cwd), ~ok, <<>>))
       /\ Finish(IF ok THEN Returned ELSE StapleError)
  /\ UNCHANGED <<variant, parameters, fs, env, authInfo, pkgPath, uuid, stack,
                 completion, answers, waits, renames>>

Next ==
  \/ ReadAuthInfo
  \/ CheckBuildContext
  \/ LocatePkg
  \/ SignPackage
  \/ RenameOriginal
  \/ RenameSigned
  \/ Upload
  \/ Settle
  \/ Query
  \/ Delay30
  \/ ResumeCaller
  \/ PollerCompleted
  \/ Staple

Spec == Init /\ [][Next]_vars

\* The run with the scheduling the poller relies on: a started status query
\* ends (execa settles), the 30-second timer fires, and the continuation of
\* a settled promise runs.
LiveSpec ==
  /\ Spec
  /\ WF_vars(Query)
  /\ WF_vars(Delay30)
  /\ WF_vars(ResumeCaller)
  /\ WF_vars(PollerCompleted)

(***************************************************************************)
(* Vocabulary of the properties.                                           *)
(***************************************************************************)
IsSignCall(c) == c.tool = "productsign"
IsUploadCall(c) == c.tool = "xcrun" /\ c.args[2] = Str("--notarize-app")
IsQueryCall(c) == c.tool = "xcrun" /\ c.args[2] = Str("--notarization-info")
IsStapleCall(c) == c.tool = "xcrun" /\ c.args[1] = Str("stapler")

SignCalls == {i \in 1..Len(calls) : IsSignCall(calls[i])}
UploadCalls == {i \in 1..Len(calls) : IsUploadCall(calls[i])}
QueryCalls == {i \in 1..Len(calls) : IsQueryCall(calls[i])}
StapleCalls == {i \in 1..Len(calls) : IsStapleCall(calls[i])}

\* the stages in their order
StageOf(c) ==
  CASE IsSignCall(c) -> 1
    [] IsUploadCall(c) -> 2
    [] IsQueryCall(c) -> 3
    [] OTHER -> 4

\* the outermost waitForNotarize call has completed
PollerHasCompleted == answers # <<>> /\ pc \in {"staple", "done"}

\* the status the authority reports in an answer
StatusOf(answer) ==
  IF answer = QueryFailed THEN Undefined ELSE parseNotarizationInfo(answer).status

\* the value of the first line of a text that carries the label, wherever
\* the line stands; "" when there is none
FieldOf(text, label) ==
  LET at == {i \in 1..Len(text) : text[i].label = label}
  IN IF at = {} THEN "" ELSE text[CHOOSE i \in at : \A j \in at : i <= j].val

\* the credentials getAuthInfo has just read
CredentialsRead == "PSC_NAME" \in DOMAIN env

Defined(v) == v # Undefined

InProgressThenSuccess ==
  /\ answers # <<>>
  /\ StatusOf(answers[Len(answers)]) = Str("success")
  /\ \A i \in 1..(Len(answers) - 1) : StatusOf(answers[i]) = Str("in progress")

(***************************************************************************)
(* C1.  When the status queries answer 'in progress' k times and then      *)
(* 'success', the poller has made exactly k+1 queries, has waited one      *)
(* 30-second interval between consecutive queries, and its outermost call  *)
(* returns without error, in both modules.                                 *)
(***************************************************************************)
C1_PollerReturnsAfterInProgress ==
  (PollerHasCompleted /\ InProgressThenSuccess)
    => /\ Cardinality(QueryCalls) = Len(answers)
       /\ waits = Len(answers) - 1
       /\ completion = Returned

(***************************************************************************)
(* C2.  When a status query returns a response whose status is 'invalid',  *)
(* that query is the last one and the poller fails with the rejection      *)
(* error, which carries the status code (when the response gives one as a  *)
(* decimal integer), the status message and the log URL (when it is not    *)
(* the null marker) of that response.                                      *)
(***************************************************************************)
C2_RejectedCarriesResponse ==
  /\ \A i \in 1..(Len(answers) - 1) : StatusOf(answers[i]) # Str("invalid")
  /\ (PollerHasCompleted /\ StatusOf(answers[Len(answers)]) = Str("invalid"))
       => LET response == answers[Len(answers)]
              code == FieldOf(response, "Status Code: ")
              message == FieldOf(response, "Status Message: ")
              url == FieldOf(response, "LogFileURL: ")
          IN /\ completion.t = "throw"
             /\ completion.message[1] = MsgRejected
             /\ (code # "" /\ parseInt(code) # NaN /\ ToStr(parseInt(code)) = code)
                  => completion.message[2] = code
             /\ message # "" => completion.message[4] = message
             /\ url \notin {"", "(null)"} => completion.message[6] = url

LastCall == calls[Len(calls)]

StageErrors(stage) ==
  CASE stage = 1 -> {MsgSignFailed, MsgRenameFailed}
    [] stage = 2 -> {MsgUploadFailed}
    [] stage = 3 -> {MsgRejected, MsgUnrecognized}
    [] OTHER -> {MsgStapleFailed}

(***************************************************************************)
(* C3.  The tools run in the order sign, upload, status queries, staple;   *)
(* only the status query repeats and only src/index.js signs; a stage      *)
(* starts only after the stage before it succeeded (the upload after both  *)
(* renames, a query after the upload gave an identifier, the stapling      *)
(* after the poller returned without error); the run returns without error *)
(* only if the last stage succeeded, and otherwise completes with the      *)
(* error of the stage that failed.                                         *)
(***************************************************************************)
C3_StagesInOrder ==
  /\ \A i, j \in 1..Len(calls) :
       i < j => /\ StageOf(calls[i]) <= StageOf(calls[j])
                /\ StageOf(calls[i]) = StageOf(calls[j]) => IsQueryCall(calls[i])
  /\ variant = "part000" => SignCalls = {} /\ renames = <<>>
  /\ \A j \in 2..Len(calls) :
       StageOf(calls[j - 1]) < StageOf(calls[j])
         => /\ StageOf(calls[j]) = StageOf(calls[j - 1]) + 1
            /\ ~calls[j - 1].failed
  /\ calls # <<>> => StageOf(calls[1]) = (IF variant = "index" THEN 1 ELSE 2)
  /\ (variant = "index" /\ UploadCalls # {}) => Len(renames) = 2
  /\ QueryCalls # {}
       => /\ uuid.t = "string"
          /\ \A i \in UploadCalls :
               uuid.s \in {calls[i].stdout[k].val : k \in 1..Len(calls[i].stdout)}
  /\ StapleCalls # {} => completion = Returned /\ stack = <<>>
  /\ (pc = "done" /\ calls # <<>>)
       => IF outcome = Returned
          THEN IsStapleCall(LastCall) /\ ~LastCall.failed
          ELSE /\ outcome.t = "throw"
               /\ outcome.message[1] \in StageErrors(StageOf(LastCall))
               /\ IsStapleCall(LastCall) => LastCall.failed

C3_Witness ==
  /\ pc = "done"
  /\ outcome = Returned
  /\ variant = "index"
  /\ Len(answers) >= 2
  /\ IsStapleCall(LastCall)

NoPkgArtifact ==
  \A i \in 1..Len(parameters.artifactPaths) :
    extname(parameters.artifactPaths[i]) # <<".", "pkg">>

(***************************************************************************)
(* C4.  When no entry of artifactPaths has the extension '.pkg', the run   *)
(* invokes no tool and renames no file, never fails, and is never past the *)
(* search of the artifact.                                                 *)
(***************************************************************************)
C4_NoPkgNoTool ==
  NoPkgArtifact
    => /\ calls = <<>>
       /\ renames = <<>>
       /\ outcome \in {Running, Returned}
       /\ pc \in {"start", "context", "find", "done"}
       /\ pkgPath = Undefined

C4_Witness ==
  /\ NoPkgArtifact
  /\ parameters.artifactPaths # <<>>
  /\ pc = "done"
  /\ outcome = Returned
  /\ authInfo # Undefined
  /\ env = NothingRead

(***************************************************************************)
(* C5.  The signing tool is invoked with '--sign', the certificate         *)
(* identity PSC_NAME, the located .pkg path and the '<name>-signed.pkg'    *)
(* path of the same directory.                                             *)
(***************************************************************************)
C5_SignArguments ==
  \A i \in SignCalls :
    calls[i].args = <<Str("--sign"), authInfo.productSignCertificateName,
                      pkgPath, Sibling(pkgPath, "-signed")>>

(***************************************************************************)
(* C6.  After a successful run of src/index.js that went through all its   *)
(* stages, the file at the original artifact path is the output of the     *)
(* signing tool for the original artifact, and '<name>-unsigned.pkg' holds *)
(* the original bytes.                                                     *)
(***************************************************************************)
C6_SignedInPlace ==
  (variant = "index" /\ pc = "done" /\ outcome = Returned /\ calls # <<>>)
    => /\ fs[pkgPath] = SignedBy(authInfo.productSignCertificateName, Built(pkgPath))
       /\ fs[Sibling(pkgPath, "-unsigned")] = Built(pkgPath)

InteractiveSet(v) ==
  IF v = "index" THEN {"APPLE_ID", "APPLE_ID_PASSWORD"}
  ELSE {"APPLE_ID", "APPLE_ID_PASSWORD", "APPLE_TEAM_ID"}
ServiceSet == {"API_KEY_ID", "API_KEY_ISSUER_ID"}

OneCompleteSet(v, e) ==
  /\ \/ (\A n \in InteractiveSet(v) : Defined(e[n])) /\ (\A n \in ServiceSet : ~Defined(e[n]))
     \/ (\A n \in ServiceSet : Defined(e[n])) /\ (\A n \in InteractiveSet(v) : ~Defined(e[n]))
  /\ v = "index" => Defined(e.PSC_NAME)

(***************************************************************************)
(* C7.  Credential validation accepts an environment exactly when one      *)
(* complete credential set is defined and the other is entirely undefined  *)
(* (with PSC_NAME in src/index.js).                                        *)
(***************************************************************************)
C7_AcceptsOneCompleteSet ==
  CredentialsRead => ((pc = "context") <=> OneCompleteSet(variant, env))

InteractiveFlags == {Str("--username"), Str("--password"), Str("--asc-provider")}
ServiceFlags == {Str("--apiKey"), Str("--apiIssuer")}

\* the authorization arguments of a call: what follows the fixed arguments,
\* without the provider pair
AuthArgsOf(c) ==
  LET first == IF IsUploadCall(c) THEN 7 ELSE 4
      rest == SubSeq(c.args, first, Len(c.args))
      n == Len(rest)
  IN IF n >= 2 /\ rest[n - 1] = Str("-itc_provider") THEN SubSeq(rest, 1, n - 2) ELSE rest

Elements(q) == {q[i] : i \in 1..Len(q)}

(***************************************************************************)
(* C8.  In every upload and every status query the authorization           *)
(* arguments are one complete set, the interactive-account flags or the    *)
(* service-account flags, never a mix, chosen by the accepted credentials; *)
(* the upload ends with '-itc_provider <teamShortName>' exactly when a     *)
(* team short name is present, whichever set is in use.                    *)
(***************************************************************************)
C8_OneAuthorizationSet ==
  \A i \in UploadCalls \cup QueryCalls :
    LET a == AuthArgsOf(calls[i])
        interactive == Elements(a) \cap InteractiveFlags # {}
        service == Elements(a) \cap ServiceFlags # {}
    IN /\ interactive # service
       /\ \A k \in 1..Len(a) : a[k].t = "string"
       /\ interactive <=> Defined(authInfo.appleId)
       /\ interactive
            => /\ SubSeq(a, 1, 4) = <<Str("--username"), authInfo.appleId,
                                      Str("--password"), authInfo.appleIdPassword>>
               /\ Len(a) = (IF variant = "index" THEN 4 ELSE 6)
       /\ service
            => a = <<Str("--apiKey"), authInfo.appleApiKey,
                     Str("--apiIssuer"), authInfo.appleApiIssuer>>
       /\ IsUploadCall(calls[i])
            => LET args == calls[i].args
                   n == Len(args)
               IN IF Defined(authInfo.teamShortName)
                  THEN SubSeq(args, n - 1, n) = <<Str("-itc_provider"), authInfo.teamShortName>>
                  ELSE Str("-itc_provider") \notin Elements(args)

C8_Witness ==
  \E i \in UploadCalls :
    /\ Str("--apiKey") \in Elements(calls[i].args)
    /\ Str("-itc_provider") \in Elements(calls[i].args)
    /\ QueryCalls # {}

(***************************************************************************)
(* C9.  When the credential validation rejects the environment, the run    *)
(* returns to its caller without error, has invoked no tool and has        *)
(* renamed no file.                                                        *)
(***************************************************************************)
C9_RejectedCredentialsSkip ==
  (CredentialsRead /\ getAuthInfo(variant, env).t = "throw")
    => /\ pc = "done"
       /\ outcome = Returned
       /\ calls = <<>>
       /\ renames = <<>>

C9_Witness ==
  /\ CredentialsRead
  /\ variant = "index"
  /\ env.PSC_NAME = Undefined
  /\ Defined(env.API_KEY_ID)
  /\ pc = "done"
  /\ outcome = Returned

HasUuidLine(text) == \E k \in 1..Len(text) : text[k].label = "RequestUUID = "

(***************************************************************************)
(* C10.  When the upload tool succeeds and prints no request-identifier    *)
(* line, the upload fails with the error of the missing identifier; the    *)
(* upload error is raised only when the tool itself failed.                *)
(***************************************************************************)
C10_ParseErrorIsDistinct ==
  (pc = "done" /\ calls # <<>> /\ IsUploadCall(LastCall))
    => /\ (~LastCall.failed /\ ~HasUuidLine(LastCall.stdout))
            => outcome.message[1] = MsgNoUuid
       /\ outcome.message[1] = MsgUploadFailed => LastCall.failed

(***************************************************************************)
(* C11.  Whenever the upload tool succeeds and its output has a line       *)
(* 'RequestUUID = <value>', whether that line is the first, a middle or    *)
(* the last line of the output, the upload returns the value of the first  *)
(* such line and the run goes on with it as its request identifier.        *)
(***************************************************************************)
C11_IdentifierExtracted ==
  \A i \in UploadCalls :
    (~calls[i].failed /\ HasUuidLine(calls[i].stdout))
      => /\ uuid = Str(FieldOf(calls[i].stdout, "RequestUUID = "))
         /\ ~(pc = "done" /\ outcome.t = "throw" /\ LastCall = calls[i])

\* the successful queries of a script of query outcomes
Successes(script) == SelectSeq(script, LAMBDA a : a # QueryFailed)

\* the queries after which the poller waits: the failed ones and the ones
\* answered 'in progress'
Retried == {i \in 1..Len(answers) :
              answers[i] = QueryFailed \/ StatusOf(answers[i]) = Str("in progress")}

(***************************************************************************)
(* C12.  A failed status query never completes the poller: after it the    *)
(* poller waits 30 seconds and queries again, however many queries failed  *)
(* before; and when the poller has completed, it has completed with what   *)
(* the successful queries alone lead to (the same script without its       *)
(* failed queries).                                                        *)
(***************************************************************************)
C12_FailedQueriesAreRetried ==
  /\ (answers # <<>> /\ answers[Len(answers)] = QueryFailed)
       => /\ pc \in {"delay30", "query"}
          /\ outcome = Running
          /\ completion = None
  /\ waits = Cardinality(Retried) - (IF pc = "delay30" THEN 1 ELSE 0)
  /\ Cardinality(QueryCalls) = Len(answers)
  /\ PollerHasCompleted
       => completion = waitForNotarize(variant, Successes(answers)).result

C12_Witness ==
  /\ PollerHasCompleted
  /\ Len(answers) = 3
  /\ answers[1] = QueryFailed
  /\ answers[2] = QueryFailed
  /\ StatusOf(answers[3]) = Str("success")
  /\ completion = Returned
  /\ waits = 2
  /\ pc = "done"
  /\ outcome = Returned

\* a waitForNotarize call of src/index.js is suspended at the `await` of
\* its 'in progress' branch
AwaitingInner == \E k \in 1..Len(stack) : stack[k].how = "await"

SomeInProgress == \E i \in 1..Len(answers) : StatusOf(answers[i]) = Str("in progress")

\* the error of the unrecognized status 'in progress'
UnrecognizedInProgress == Thrown(<<MsgUnrecognized, "in progress", "\"">>)

(***************************************************************************)
(* C13, as claimed.  In src/index.js, once a query has answered 'in        *)
(* progress' and the wait of the inner poll has begun, the outer call has  *)
(* resolved: no call is left suspended at its `await` while the inner poll *)
(* queries or completes.                                                   *)
(***************************************************************************)
C13_OuterResolvesAtInnerWait ==
  (variant = "index" /\ pc \in {"query", "unwind"}) => ~AwaitingInner

(***************************************************************************)
(* C13, amended.  In src/index.js a call that got 'in progress' stays      *)
(* suspended until the inner poll has completed: while it is suspended the *)
(* run has not gone on and nothing is stapled, and the run is past the     *)
(* poller only when no call is pending.  The call then drops the result of *)
(* the inner poll: it fails with the error of the inner poll if that       *)
(* failed, and else with the unrecognized-status error for 'in progress',  *)
(* so nothing is stapled after an 'in progress' answer.                    *)
(***************************************************************************)
C13_OuterWaitsForInner ==
  /\ AwaitingInner
       => /\ variant = "index"
          /\ pc \in {"delay30", "query", "unwind"}
          /\ outcome = Running
          /\ StapleCalls = {}
  /\ pc \in {"staple", "done"} => stack = <<>>
  /\ \A i \in StapleCalls : \A j \in QueryCalls : j < i
  /\ (variant = "index" /\ PollerHasCompleted /\ SomeInProgress)
       => LET last == CheckStatus(parseNotarizationInfo(answers[Len(answers)]))
          IN /\ completion = (IF last.t = "throw" THEN last ELSE UnrecognizedInProgress)
             /\ pc = "done"
             /\ outcome = completion
             /\ StapleCalls = {}

C13_Witness ==
  /\ variant = "index"
  /\ Len(answers) = 2
  /\ StatusOf(answers[1]) = Str("in progress")
  /\ StatusOf(answers[2]) = Str("success")
  /\ pc = "done"
  /\ outcome = UnrecognizedInProgress

RecognizedStatuses == {Str("in progress"), Str("success"), Str("invalid")}

\* a successful query whose parsed response has none of the three
\* recognized statuses (or no status at all)
UnrecognizedAnswer(answer) ==
  answer # QueryFailed /\ StatusOf(answer) \notin RecognizedStatuses

(***************************************************************************)
(* C14.  A successful status query whose parsed response has a status      *)
(* other than 'in progress', 'success' and 'invalid', or no status, is the *)
(* last query of the run: the poller fails with the unrecognized-status    *)
(* error that quotes this status as the response gave it ('undefined' when *)
(* it gave none), also when earlier queries failed or were answered 'in    *)
(* progress', and nothing is stapled.                                      *)
(***************************************************************************)
C14_UnrecognizedStatusFails ==
  /\ \A i \in 1..(Len(answers) - 1) : ~UnrecognizedAnswer(answers[i])
  /\ (answers # <<>> /\ UnrecognizedAnswer(answers[Len(answers)]))
       => LET status == StatusOf(answers[Len(answers)])
              raw == IF status = Undefined THEN "undefined"
                     ELSE FieldOf(answers[Len(answers)], "Status: ")
          IN /\ pc \in {"unwind", "done"}
             /\ completion = Thrown(<<MsgUnrecognized, raw, "\"">>)
             /\ pc = "done" => outcome = completion
             /\ StapleCalls = {}

C14_Witness ==
  /\ variant = "index"
  /\ Len(answers) = 3
  /\ answers[1] = QueryFailed
  /\ StatusOf(answers[2]) = Str("in progress")
  /\ StatusOf(answers[3]) = Str("revoked")
  /\ pc = "done"
  /\ outcome = Thrown(<<MsgUnrecognized, "revoked", "\"">>)

\* a successful query answered with a terminal status: anything but 'in
\* progress'
TerminalAnswer(answer) ==
  answer # QueryFailed /\ StatusOf(answer) # Str("in progress")

TerminalAnswered == \E i \in 1..Len(answers) : TerminalAnswer(answers[i])

(***************************************************************************)
(* C15.  Once the authority has answered a query with a terminal status    *)
(* ('success', 'invalid' or an unrecognized one), the poller eventually    *)
(* completes, returning or failing, and that answer is the last query.     *)
(* As long as every query has failed or was answered 'in progress' the     *)
(* poller has not completed and the run has not ended: it is waiting or    *)
(* about to query again, whatever the number of queries so far.            *)
(***************************************************************************)
C15_TerminatesOnTerminalAnswer ==
  /\ [](\A i \in 1..(Len(answers) - 1) : ~TerminalAnswer(answers[i]))
  /\ []((answers # <<>> /\ ~TerminalAnswered)
          => /\ pc \in {"delay30", "query"}
             /\ outcome = Running
             /\ completion = None
             /\ Len(stack) = Len(answers))
  /\ [](PollerHasCompleted => TerminalAnswered /\ stack = <<>>)
  /\ (TerminalAnswered ~> PollerHasCompleted)

C15_Witness ==
  /\ PollerHasCompleted
  /\ Len(answers) = 3
  /\ answers[1] = QueryFailed
  /\ StatusOf(answers[2]) = Str("in progress")
  /\ StatusOf(answers[3]) = Str("invalid")
  /\ Len(calls) >= 4
  /\ waits = 2

\* the values of the 'RequestUUID = ' lines of an upload output
UuidValues(text) ==
  {text[k].val : k \in {n \in 1..Len(text) : text[n].label = "RequestUUID = "}}

(***************************************************************************)
(* C16.  A run uploads at most once, and every status query of the run,    *)
(* the first one, each retry after a failed query and each query after an  *)
(* 'in progress' answer, is issued with the identifier this upload         *)
(* returned; the identifier, once obtained, never changes, and is not the  *)
(* one the status responses carry.                                         *)
(***************************************************************************)
C16_SameRequestIdentifier ==
  /\ [](Cardinality(UploadCalls) <= 1)
  /\ [](\A i \in QueryCalls :
          /\ calls[i].args[3] = uuid
          /\ uuid.t = "string"
          /\ UploadCalls # {}
          /\ \A u \in UploadCalls :
               /\ u < i
               /\ ~calls[u].failed
               /\ uuid.s \in UuidValues(calls[u].stdout))
  /\ [][uuid # Undefined => uuid' = uuid]_vars

C16_Witness ==
  /\ Len(answers) = 3
  /\ answers[1] = QueryFailed
  /\ StatusOf(answers[2]) = Str("in progress")
  /\ parseNotarizationInfo(answers[2]).uuid = Str("OTHER-9")
  /\ \A i \in QueryCalls : calls[i].args[3] = Str("ABC-123")
  /\ Cardinality(QueryCalls) = 3

\* the build-context guards have just read the environment
ContextRead == "isPullRequest" \in DOMAIN env

\* the values of CSC_FOR_PULL_REQUEST that are 'true', '' or '1' once the
\* white space around them is dropped
TrueFlagValues == {Str("true"), Str(" true "), Str("1"), Str(" 1"), Str(""), Str(" ")}

OptedIn == env.CSC_FOR_PULL_REQUEST \in TrueFlagValues

\* a branch variable set to a branch other than 'master' (an empty value
\* names no branch)
OtherBranch(value) == value \notin {Undefined, Str(""), Str("master")}

StoppedQuietly ==
  /\ pc = "done"
  /\ outcome = Returned
  /\ calls = <<>>
  /\ renames = <<>>
  /\ stack = <<>>

(***************************************************************************)
(* C17.  The run returns normally, with no tool invoked and no file        *)
(* renamed, (a) for a pull-request build when CSC_FOR_PULL_REQUEST is not  *)
(* true, (b) when the flag is not true and CIRCLE_BRANCH or TRAVIS_BRANCH  *)
(* names a branch other than 'master', (c) in src/index.js when the        *)
(* platform is not 'darwin'.  The flag is true exactly when its value      *)
(* without surrounding white space is 'true', '' or '1' (so 'TRUE',        *)
(* 'false' and an unset flag are not), and when it is true, or neither (a) *)
(* nor (b) applies, the guards let the run go on to the search of the      *)
(* artifact.                                                               *)
(***************************************************************************)
C17_BuildContextGuards ==
  /\ ContextRead
       => LET stops == \/ env.isPullRequest /\ ~OptedIn
                       \/ /\ ~OptedIn
                          /\ \/ OtherBranch(env.CIRCLE_BRANCH)
                             \/ OtherBranch(env.TRAVIS_BRANCH)
          IN IF stops THEN StoppedQuietly
             ELSE pc = "find" /\ outcome = Running /\ calls = <<>>
  /\ (variant = "index" /\ parameters.electronPlatformName # Str("darwin"))
       => /\ pc \in {"start", "done"}
          /\ pc = "done" => StoppedQuietly
          /\ calls = <<>>
          /\ renames = <<>>
          /\ authInfo = Undefined

C17_Witness ==
  /\ ContextRead
  /\ env.isPullRequest
  /\ env.CSC_FOR_PULL_REQUEST = Str(" 1")
  /\ env.CIRCLE_BRANCH = Str("dev")
  /\ env.TRAVIS_BRANCH = Str("dev")
  /\ pc = "find"

\* the original bytes of the located artifact are at its path or at the
\* '-unsigned.pkg' path next to it
OriginalKept ==
  \/ fs[pkgPath] = Built(pkgPath)
  \/ fs[Sibling(pkgPath, "-unsigned")] = Built(pkgPath)

(***************************************************************************)
(* C18.  In src/index.js, in every state of a run, whatever stage failed,  *)
(* the original bytes of the located artifact are at the original path or  *)
(* at '<name>-unsigned.pkg', and the other artifacts of the build are      *)
(* untouched; files are renamed only after the signing tool succeeded,     *)
(* first the original to '<name>-unsigned.pkg', then '<name>-signed.pkg'   *)
(* to the original path; a failed signing changes no file, and after the   *)
(* second rename no file changes any more.                                 *)
(***************************************************************************)
C18_NoArtifactLoss ==
  /\ []((variant = "index" /\ pkgPath # Undefined) => OriginalKept)
  /\ [](\A p \in ArtifactChoices : p # pkgPath => fs[p] = Built(p))
  /\ [](/\ Len(renames) <= 2
        /\ Len(renames) >= 1
             => /\ renames[1] = <<pkgPath, Sibling(pkgPath, "-unsigned")>>
                /\ SignCalls # {}
                /\ \A i \in SignCalls : ~calls[i].failed
        /\ Len(renames) = 2 => renames[2] = <<Sibling(pkgPath, "-signed"), pkgPath>>
        /\ (\E i \in SignCalls : calls[i].failed)
             => /\ renames = <<>>
                /\ pc = "done"
                /\ fs[pkgPath] = Built(pkgPath)
                /\ \A f \in Files : fs[f].kind # "signed")
  /\ [][(pc = "sign" /\ pc' = "done") => fs' = fs]_vars
  /\ [][fs' # fs => pc \in {"sign", "rename1", "rename2"}]_vars

C18_Witness ==
  /\ variant = "index"
  /\ pkgPath = AppPkg
  /\ pc = "done"
  /\ outcome.t = "throw"
  /\ outcome.message[1] = MsgRenameFailed
  /\ Len(renames) = 1
  /\ fs[AppPkg] = Absent
  /\ fs[Path("dist", <<"app", "-unsigned", ".", "pkg">>)] = Built(AppPkg)

OtherVariant == IF variant = "index" THEN "part000" ELSE "index"

(***************************************************************************)
(* C19.  For every script of query outcomes, waitForNotarize of            *)
(* src/index.js and waitForNotarize of src/unnamed/part_000 issue the same *)
(* number of queries and complete in the same way: when the poller of the  *)
(* running module has completed on a script, the other module completes on *)
(* the same script after as many queries and with the same result.         *)
(***************************************************************************)
C19_PollersEquivalent ==
  PollerHasCompleted
    => /\ waitForNotarize(variant, answers)
            = [queries |-> Cardinality(QueryCalls), result |-> completion]
       /\ waitForNotarize(OtherVariant, answers)
            = [queries |-> Cardinality(QueryCalls), result |-> completion]

(***************************************************************************)
(* C20.  The path the upload tool gets after '--file' and the path stapled *)
(* are the located artifact path: the stapling tool gets its base name and *)
(* runs in its directory.  In src/index.js the file at that path, from the *)
(* upload on, is what the signing tool produced from the artifact with the *)
(* certificate identity, never the unsigned original.                      *)
(***************************************************************************)
C20_SameArtifactThroughPipeline ==
  /\ \A i \in UploadCalls : calls[i].args[6] = pkgPath
  /\ \A i \in StapleCalls :
       /\ calls[i].args[4] = Str(basename(pkgPath))
       /\ calls[i].cwd = Str(dirname(pkgPath))
       /\ UploadCalls # {}
  /\ (variant = "index" /\ UploadCalls # {})
       => /\ fs[pkgPath] # Built(pkgPath)
          /\ fs[pkgPath] = SignedBy(authInfo.productSignCertificateName, Built(pkgPath))

====
